---- MODULE Spec2Model ----
(***************************************************************************)
(* demo_code_addition.py: two population codes A and B are generated step  *)
(* by step, combined into C, and then binned into firing rates, averaged   *)
(* into histograms and correlated for one pair of neurons.                 *)
(*                                                                         *)
(* Arrays are functions over 0..n-1, as in the source (A[i][t] is A[i,t]). *)
(* A float that is a quotient of integers is kept as the pair <<num, den>>.*)
(* The means a and b are kept in units of 1/MeanDen.                       *)
(***************************************************************************)
EXTENDS Integers, Sequences, FiniteSets, TLC

\* ---------------------------------------------------------------- bounds
\* The whole program: 0..MaxSteps timesteps, histograms over 1..MaxHist steps,
\* bins of -1..MaxBin samples.
MaxSteps == 2
MaxHist == 2
MaxBin == 2
\* firing_rate on its own: spike trains of 0..FRMaxCols samples a row, bins of
\* 1..FRMaxBin samples.
FRMaxCols == 5
FRMaxBin == 3
\* The choice of the near pair on its own: sizes 1..SelMaxN, means of up to
\* SelMaxMean / MeanDen in absolute value.
SelMaxN == 7
SelMaxMean == 10

\* The population sizes of the whole program: one neuron, the smallest even
\* size, and the smallest odd size whose near pair exists.
NSizes == {1, 2, 3}
\* The numbers of rows of the spike trains firing_rate is given on its own.
FRRows == {0, 1, 2}

\* ------------------------------------------------------ program constants
\* The decimal parameters are kept in tenths: a = -0.2 is -2 / MeanDen.
MeanDen == 10
a_default == -2
a_sig == 2
b_default == 2
b_sig == 3
\* The hard-coded distant pair of the second firing-rate plot.
FarN1 == 10
FarN2 == 40

VARIABLES
    N, num_steps, histogram_steps, firing_rate_bin, a, b,
    A, B, C, t, pc, err, writes,
    hA, hB, hC, rf_A, rf_B, rf_C,
    n1_C, n2_C, reported, ellipseC, first

config == <<N, num_steps, histogram_steps, firing_rate_bin, a, b>>
trains == <<A, B, C>>
stats  == <<hA, hB, hC, rf_A, rf_B, rf_C, n1_C, n2_C, reported, ellipseC>>
vars   == <<config, trains, t, pc, err, writes, stats, first>>

\* ------------------------------------------------------------ arithmetic
Size(f) == Cardinality(DOMAIN f)

RECURSIVE SumTo(_, _)
\* f[0] + ... + f[n-1]
SumTo(f, n) == IF n <= 0 THEN 0 ELSE SumTo(f, n - 1) + f[n - 1]

Min(x, y) == IF x <= y THEN x ELSE y

\* Python's x // y on ints, y # 0: the floor of the quotient.
PyFloorDiv(x, y) == IF y > 0 THEN x \div y ELSE (0 - x) \div (0 - y)

\* Python's int() of the quotient n/d, d > 0: truncation toward zero.
PyTrunc(n, d) == IF n >= 0 THEN n \div d ELSE 0 - ((0 - n) \div d)

\* Python's seq[:stop] on a sequence of length len: the number of items kept.
SliceStop(len, stop) ==
    IF stop >= 0 THEN Min(stop, len)
    ELSE IF len + stop > 0 THEN len + stop ELSE 0

\* Python's seq[i]: the position read, or -1 when i is out of range.
PyIndex(len, i) ==
    IF i >= 0 /\ i < len THEN i
    ELSE IF i < 0 /\ len + i >= 0 THEN len + i
    ELSE 0 - 1

\* np.zeros((rows, cols))
Zeros(rows, cols) == [i \in 0..(rows - 1) |-> [k \in 0..(cols - 1) |-> 0]]

\* X[:, k]
Col(X, k) == [i \in DOMAIN X |-> X[i][k]]

\* X[:, k] = v
SetCol(X, k, v) == [i \in DOMAIN X |-> [X[i] EXCEPT ![k] = v[i]]]

\* ------------------------------------------- generator and combiner (model.py)
\* A spike vector with one spike at neuron j, or with none for j outside 0..n-1.
Spike(n, j) == [i \in 0..(n - 1) |-> IF i = j THEN 1 ELSE 0]

\* model.create_code(mu, sigma, n): the spike vectors one call can return. A
\* sample of the Gaussian falls into the bin of one neuron or outside the
\* population; which one is the random stream's choice.
create_code(mu, sigma, n) == {Spike(n, j) : j \in (0 - 1)..(n - 1)}

\* model.compute(A_t, B_t): the code of the sum of the two encoded values: a
\* spike of A at i and one of B at j give a spike of C at i + j - n \div 2.
compute(A_t, B_t) ==
    LET n == Size(A_t)
    IN  [k \in 0..(n - 1) |->
            IF \E i, j \in 0..(n - 1) :
                  A_t[i] = 1 /\ B_t[j] = 1 /\ i + j - (n \div 2) = k
            THEN 1 ELSE 0]

\* ------------------------------------------------------------ firing_rate
\* The number of bins if the quotient were rounded up instead of down.
NumBinsCeil(len, bin_size) == 0 - PyFloorDiv(0 - len, bin_size)

\* num_bins = len(spike_binary) // bin_size
NumBins(len, bin_size) == PyFloorDiv(len, bin_size)

\* arr = spike_binary[:num_bins * bin_size]
Truncate(spike_binary, stop) ==
    [k \in 0..(SliceStop(Size(spike_binary), stop) - 1) |-> spike_binary[k]]

\* arr.reshape((rows, cols)) on len items: the shape taken, <<-1, -1>> for a
\* ValueError. A negative entry is numpy's unknown dimension: at most one, and
\* the known one must be nonzero and divide len.
Reshape(len, rows, cols) ==
    IF rows >= 0 /\ cols >= 0
    THEN IF rows * cols = len THEN <<rows, cols>> ELSE <<0 - 1, 0 - 1>>
    ELSE IF rows < 0 /\ cols < 0 THEN <<0 - 1, 0 - 1>>
    ELSE LET known == IF rows < 0 THEN cols ELSE rows
         IN  IF known = 0 \/ len % known # 0 THEN <<0 - 1, 0 - 1>>
             ELSE IF rows < 0 THEN <<len \div known, cols>>
             ELSE <<rows, len \div known>>

\* The sum of a window that starts at sample k instead of k * cols: sliding,
\* overlapping windows.
BinSumSliding(arr, k, cols) == SumTo(arr, k + cols) - SumTo(arr, k)

\* np.sum(split_arr, axis=1)[k]: the sum of row k of the reshaped array.
BinSum(arr, k, cols) == SumTo(arr, (k + 1) * cols) - SumTo(arr, k * cols)

\* The body of the loop over the neurons, for one row of the spike train.
RowRate(spike_binary, bin_size) ==
    IF bin_size = 0
    THEN [exc |-> "ZeroDivisionError", val |-> <<>>]
    ELSE LET num_bins == NumBins(Size(spike_binary), bin_size)
             arr      == Truncate(spike_binary, num_bins * bin_size)
             shape    == Reshape(Size(arr), num_bins, bin_size)
         IN  IF shape[1] < 0
             THEN [exc |-> "ValueError", val |-> <<>>]
             ELSE [exc |-> "none",
                   val |-> [k \in 0..(shape[1] - 1) |->
                               <<BinSum(arr, k, shape[2]), bin_size>>]]

\* The loop over the neurons: the exception raised (by the first row that
\* raises) and the list firing_rates as returned.
RateRows(spike_train, bin_size) ==
    LET rows == [i \in DOMAIN spike_train |-> RowRate(spike_train[i], bin_size)]
        bad  == {i \in DOMAIN spike_train : rows[i].exc # "none"}
    IN  IF bad = {}
        THEN [exc |-> "none", ret |-> [i \in DOMAIN spike_train |-> rows[i].val]]
        ELSE [exc |-> rows[CHOOSE i \in bad : \A j \in bad : i <= j].exc,
              ret |-> <<>>]

\* What firing_rate would leave in its argument if it divided the rows in
\* place (spike_binary //= bin_size) instead of dividing the sums.
firing_rate_inplace(spike_train, bin_size) ==
    [exc |-> RateRows(spike_train, bin_size).exc,
     ret |-> RateRows(spike_train, bin_size).ret,
     spike_train |->
        IF bin_size <= 1 THEN spike_train
        ELSE [i \in DOMAIN spike_train |->
                 [k \in DOMAIN spike_train[i] |-> spike_train[i][k] \div bin_size]]]

\* firing_rate(spike_train, bin_size): the exception raised, the list returned,
\* and the caller's array as the call leaves it: the rows are only read, through
\* views (slices and reshape), and np.sum and the division make new arrays.
firing_rate(spike_train, bin_size) ==
    [exc |-> RateRows(spike_train, bin_size).exc,
     ret |-> RateRows(spike_train, bin_size).ret,
     spike_train |-> spike_train]

\* ------------------------------------------------------------- validator
\* np.sum(X[:, 0:histogram_steps], axis=1) / histogram_steps
Histogram(X, steps) ==
    [i \in DOMAIN X |-> <<SumTo(X[i], SliceStop(Size(X[i]), steps)), steps>>]

\* The numerators of a series of quotients with one denominator.
Nums(series) == [k \in DOMAIN series |-> series[k][1]]

\* n * sum(x*y) - sum(x) * sum(y): n^2 times the covariance of x and y.
CoMoment(x, y) ==
    LET n == Size(x)
    IN  n * SumTo([k \in DOMAIN x |-> x[k] * y[k]], n) - SumTo(x, n) * SumTo(y, n)

IsConstant(x) == \A k \in DOMAIN x : x[k] = x[0]

\* scipy.stats.pearsonr(x, y): a ValueError for unequal lengths or fewer than
\* two samples, NaN (with a warning) when either input is constant, and else
\* r = cxy / sqrt(cxx * cyy), kept as the three moments.
pearsonr(x, y) ==
    IF Size(x) # Size(y) \/ Size(x) < 2
    THEN [exc |-> "ValueError", r |-> <<>>]
    ELSE IF IsConstant(x) \/ IsConstant(y)
    THEN [exc |-> "none", r |-> <<"nan">>]
    ELSE [exc |-> "none",
          r |-> <<"r", CoMoment(x, y), CoMoment(x, x), CoMoment(y, y)>>]

\* The index without the offset N/2: int((a+b)*N/2).
NearIndexNoOffset(mu_a, mu_b, n, den) == PyTrunc((mu_a + mu_b) * n, 2 * den)

\* n1_C = int((a+b)*N/2 + N/2), with a and b in units of 1/den.
NearIndex(mu_a, mu_b, n, den) == PyTrunc((mu_a + mu_b) * n + den * n, 2 * den)

\* n2_C = n1_C + 1
NextIndex(n1) == n1 + 1

\* np.cov and np.mean of the pair's firing rates: the ellipse's parameters.
EllipseFit(x, y) ==
    [mean |-> <<SumTo(x, Size(x)), SumTo(y, Size(y))>>,
     cov  |-> <<CoMoment(x, x), CoMoment(x, y), CoMoment(y, y)>>]

\* ------------------------------------------------------------ the program
\* The parameters (lines 48-56) and the zeroed matrices (lines 58-61).
Init ==
    /\ N \in NSizes
    /\ num_steps \in 0..MaxSteps
    /\ histogram_steps \in 1..MaxHist
    /\ firing_rate_bin \in (0 - 1)..MaxBin
    /\ a = a_default
    /\ b = b_default
    /\ A = Zeros(N, num_steps)
    /\ B = Zeros(N, num_steps)
    /\ C = Zeros(N, num_steps)
    /\ t = 0
    /\ pc = "genA"
    /\ err = <<>>
    /\ writes = <<>>
    /\ hA = <<>> /\ hB = <<>> /\ hC = <<>>
    /\ rf_A = <<>> /\ rf_B = <<>> /\ rf_C = <<>>
    /\ n1_C = 0 /\ n2_C = 0
    /\ reported = <<>>
    /\ ellipseC = <<>>
    /\ first = <<>>

\* An exception ends the run: err keeps its type and the statement it left.
Raise(exc) ==
    /\ pc' = "error"
    /\ err' = <<exc, pc>>

\* A[:,t] = model.create_code(a, a_sig, N)
GenA ==
    /\ pc = "genA" /\ t < num_steps
    /\ \E v \in create_code(a, a_sig, N) : A' = SetCol(A, t, v)
    /\ writes' = Append(writes, <<"A", t>>)
    /\ pc' = "genB"
    /\ UNCHANGED <<config, B, C, t, err, stats, first>>

\* B[:,t] = model.create_code(b, b_sig, N)
GenB ==
    /\ pc = "genB"
    /\ \E v \in create_code(b, b_sig, N) : B' = SetCol(B, t, v)
    /\ writes' = Append(writes, <<"B", t>>)
    /\ pc' = "comb"
    /\ UNCHANGED <<config, A, C, t, err, stats, first>>

\* The combination if it read B's first column at every step.
CombineColumnStale(A_, B_, t_) == compute(Col(A_, t_), Col(B_, 0))

\* model.compute(A[:,t], B[:,t]), the right-hand side of line 66
CombineColumn(A_, B_, t_) == compute(Col(A_, t_), Col(B_, t_))

\* C[:,t] = model.compute(A[:,t], B[:,t]), and the loop's next t
Combine ==
    /\ pc = "comb"
    /\ C' = SetCol(C, t, CombineColumn(A, B, t))
    /\ writes' = Append(writes, <<"C", t>>)
    /\ t' = t + 1
    /\ pc' = "genA"
    /\ UNCHANGED <<config, A, B, err, stats, first>>

\* range(num_steps) is exhausted; the totals are printed.
LoopExit ==
    /\ pc = "genA" /\ t >= num_steps
    /\ pc' = "hist"
    /\ UNCHANGED <<config, trains, t, err, writes, stats, first>>

\* hA, hB, hC (lines 79-81)
Histograms ==
    /\ pc = "hist"
    /\ hA' = Histogram(A, histogram_steps)
    /\ hB' = Histogram(B, histogram_steps)
    /\ hC' = Histogram(C, histogram_steps)
    /\ pc' = "rfA"
    /\ UNCHANGED <<config, trains, t, err, writes, rf_A, rf_B, rf_C,
                   n1_C, n2_C, reported, ellipseC, first>>

\* rf_A = firing_rate(A, firing_rate_bin)
RateA ==
    /\ pc = "rfA"
    /\ LET r == firing_rate(A, firing_rate_bin)
       IN  /\ A' = r.spike_train
           /\ IF r.exc = "none"
              THEN rf_A' = r.ret /\ pc' = "rfB" /\ err' = err
              ELSE rf_A' = rf_A /\ Raise(r.exc)
    /\ UNCHANGED <<config, B, C, t, writes, hA, hB, hC, rf_B, rf_C,
                   n1_C, n2_C, reported, ellipseC, first>>

\* rf_B = firing_rate(B, firing_rate_bin)
RateB ==
    /\ pc = "rfB"
    /\ LET r == firing_rate(B, firing_rate_bin)
       IN  /\ B' = r.spike_train
           /\ IF r.exc = "none"
              THEN rf_B' = r.ret /\ pc' = "rfC" /\ err' = err
              ELSE rf_B' = rf_B /\ Raise(r.exc)
    /\ UNCHANGED <<config, A, C, t, writes, hA, hB, hC, rf_A, rf_C,
                   n1_C, n2_C, reported, ellipseC, first>>

\* rf_C = firing_rate(C, firing_rate_bin); the theoretical curves and the
\* first two figures follow and change nothing here.
RateC ==
    /\ pc = "rfC"
    /\ LET r == firing_rate(C, firing_rate_bin)
       IN  /\ C' = r.spike_train
           /\ IF r.exc = "none"
              THEN rf_C' = r.ret /\ pc' = "select" /\ err' = err
              ELSE rf_C' = rf_C /\ Raise(r.exc)
    /\ UNCHANGED <<config, A, B, t, writes, hA, hB, hC, rf_A, rf_B,
                   n1_C, n2_C, reported, ellipseC, first>>

\* n1_C, n2_C (lines 149-150)
SelectNear ==
    /\ pc = "select"
    /\ n1_C' = NearIndex(a, b, N, MeanDen)
    /\ n2_C' = NextIndex(NearIndex(a, b, N, MeanDen))
    /\ pc' = "pearson_rf"
    /\ UNCHANGED <<config, trains, t, err, writes, hA, hB, hC, rf_A, rf_B, rf_C,
                   reported, ellipseC, first>>

\* pearsonr(rf_C[n1_C], rf_C[n2_C]) and its print (lines 153-154)
PearsonBinned ==
    /\ pc = "pearson_rf"
    /\ LET i1 == PyIndex(Size(rf_C), n1_C)
           i2 == PyIndex(Size(rf_C), n2_C)
       IN  IF i1 < 0 \/ i2 < 0
           THEN Raise("IndexError") /\ reported' = reported
           ELSE LET res == pearsonr(Nums(rf_C[i1]), Nums(rf_C[i2]))
                IN  IF res.exc # "none"
                    THEN Raise(res.exc) /\ reported' = reported
                    ELSE /\ reported' = Append(reported, <<firing_rate_bin, res.r>>)
                         /\ pc' = "pearson_raw"
                         /\ err' = err
    /\ UNCHANGED <<config, trains, t, writes, hA, hB, hC, rf_A, rf_B, rf_C,
                   n1_C, n2_C, ellipseC, first>>

\* pearsonr(C[n1_C,:], C[n2_C,:]) and its print (lines 155-156)
PearsonRaw ==
    /\ pc = "pearson_raw"
    /\ LET i1 == PyIndex(Size(C), n1_C)
           i2 == PyIndex(Size(C), n2_C)
       IN  IF i1 < 0 \/ i2 < 0
           THEN Raise("IndexError") /\ reported' = reported
           ELSE LET res == pearsonr(C[i1], C[i2])
                IN  IF res.exc # "none"
                    THEN Raise(res.exc) /\ reported' = reported
                    ELSE /\ reported' = Append(reported, <<1, res.r>>)
                         /\ pc' = "ellipse_near"
                         /\ err' = err
    /\ UNCHANGED <<config, trains, t, writes, hA, hB, hC, rf_A, rf_B, rf_C,
                   n1_C, n2_C, ellipseC, first>>

\* The plot of the near pair and its ellipse (lines 158-191)
EllipseNear ==
    /\ pc = "ellipse_near"
    /\ LET i1 == PyIndex(Size(rf_C), n1_C)
           i2 == PyIndex(Size(rf_C), n2_C)
       IN  IF i1 < 0 \/ i2 < 0
           THEN Raise("IndexError") /\ ellipseC' = ellipseC
           ELSE /\ ellipseC' = EllipseFit(Nums(rf_C[i1]), Nums(rf_C[i2]))
                /\ pc' = "far"
                /\ err' = err
    /\ UNCHANGED <<config, trains, t, writes, hA, hB, hC, rf_A, rf_B, rf_C,
                   n1_C, n2_C, reported, first>>

\* The distant pair, its plot and its ellipse (lines 193-232): rows 10 and 40,
\* which a population of 40 neurons or fewer does not have.
FarPair ==
    /\ pc = "far"
    /\ n1_C' = FarN1
    /\ n2_C' = FarN2
    /\ LET i1 == PyIndex(Size(rf_C), FarN1)
           i2 == PyIndex(Size(rf_C), FarN2)
       IN  IF i1 < 0 \/ i2 < 0
           THEN Raise("IndexError") /\ ellipseC' = ellipseC
           ELSE /\ ellipseC' = EllipseFit(Nums(rf_C[i1]), Nums(rf_C[i2]))
                /\ pc' = "done"
                /\ err' = err
    /\ UNCHANGED <<config, trains, t, writes, hA, hB, hC, rf_A, rf_B, rf_C,
                   reported, first>>

Next ==
    \/ GenA \/ GenB \/ Combine \/ LoopExit
    \/ Histograms \/ RateA \/ RateB \/ RateC
    \/ SelectNear \/ PearsonBinned \/ PearsonRaw \/ EllipseNear \/ FarPair

Spec == Init /\ [][Next]_vars

\* ------------------------------------------------- firing_rate on its own
\* Every 0/1 spike train of up to two rows of FRMaxCols samples and every bin size
\* 1..FRMaxBin, at the call rf_A = firing_rate(A, firing_rate_bin).
InitFR ==
    /\ N \in FRRows
    /\ num_steps \in 0..FRMaxCols
    /\ histogram_steps = 1
    /\ firing_rate_bin \in 1..FRMaxBin
    /\ a = a_default
    /\ b = b_default
    /\ A \in [0..(N - 1) -> [0..(num_steps - 1) -> {0, 1}]]
    /\ B = Zeros(N, num_steps)
    /\ C = Zeros(N, num_steps)
    /\ t = num_steps
    /\ pc = "rfA"
    /\ err = <<>>
    /\ writes = <<>>
    /\ hA = <<>> /\ hB = <<>> /\ hC = <<>>
    /\ rf_A = <<>> /\ rf_B = <<>> /\ rf_C = <<>>
    /\ n1_C = 0 /\ n2_C = 0
    /\ reported = <<>>
    /\ ellipseC = <<>>
    /\ first = <<>>

SpecFR == InitFR /\ [][RateA]_vars

\* --------------------------------------- the choice of the near pair on its own
\* Every population size 1..SelMaxN and every pair of means, at line 149.
InitSelect ==
    /\ N \in 1..SelMaxN
    /\ num_steps = 0
    /\ histogram_steps = 1
    /\ firing_rate_bin = 1
    /\ a \in (0 - SelMaxMean)..SelMaxMean
    /\ b \in (0 - SelMaxMean)..SelMaxMean
    /\ A = Zeros(N, num_steps)
    /\ B = Zeros(N, num_steps)
    /\ C = Zeros(N, num_steps)
    /\ t = 0
    /\ pc = "select"
    /\ err = <<>>
    /\ writes = <<>>
    /\ hA = <<>> /\ hB = <<>> /\ hC = <<>>
    /\ rf_A = <<>> /\ rf_B = <<>> /\ rf_C = <<>>
    /\ n1_C = 0 /\ n2_C = 0
    /\ reported = <<>>
    /\ ellipseC = <<>>
    /\ first = <<>>

SpecSelect == InitSelect /\ [][SelectNear]_vars

\* ------------------------------------------------ the program, run twice
\* The program is started again with the same parameters once the first run's
\* loop has ended; first keeps the first run's matrices. Nothing in the script
\* seeds the random stream, so the second run's draws are its own.
Rerun ==
    /\ pc = "genA" /\ t >= num_steps /\ first = <<>>
    /\ first' = <<[A |-> A, B |-> B, C |-> C]>>
    /\ A' = Zeros(N, num_steps)
    /\ B' = Zeros(N, num_steps)
    /\ C' = Zeros(N, num_steps)
    /\ t' = 0
    /\ writes' = <<>>
    /\ UNCHANGED <<config, pc, err, stats>>

InitTwoRuns == Init /\ histogram_steps = 1 /\ firing_rate_bin = 1

NextTwoRuns == GenA \/ GenB \/ Combine \/ Rerun

SpecTwoRuns == InitTwoRuns /\ [][NextTwoRuns]_vars

\* ================================================================ claims
RECURSIVE RangeSum(_, _, _)
\* row[lo] + ... + row[hi], sample by sample
RangeSum(row, lo, hi) == IF lo > hi THEN 0 ELSE row[lo] + RangeSum(row, lo + 1, hi)

\* Two quotients <<num, den>> with nonzero denominators are the same number.
RatEq(p, q) == p[1] * q[2] = q[1] * p[2]

LoopPcs == {"genA", "genB", "comb"}

\* C1. firing_rate on N rows of T >= 0 samples with bin_size >= 1 returns,
\* without raising, N sequences of floor(T / bin_size) rates each: empty ones
\* when T < bin_size.
C1_RateShape ==
    pc # "rfA" =>
        /\ pc = "rfB" /\ err = <<>>
        /\ DOMAIN rf_A = 0..(N - 1)
        /\ \A i \in 0..(N - 1) :
              /\ Size(rf_A[i]) = num_steps \div firing_rate_bin
              /\ (num_steps < firing_rate_bin => rf_A[i] = <<>>)

\* firing_rate has returned two empty sequences for a train of two rows that
\* holds samples, but fewer than one bin of them.
C1_Witness ==
    /\ pc = "rfB" /\ N = 2
    /\ num_steps > 0 /\ num_steps < firing_rate_bin
    /\ rf_A[0] = <<>> /\ rf_A[1] = <<>>

\* C2. Entry k of firing_rate(spike_train, bin_size)[i] is the sum of the
\* samples k*bin_size .. (k+1)*bin_size - 1 of row i divided by bin_size, for
\* every k below floor(T / bin_size): consecutive windows from the start, the
\* trailing remainder in none of them.
C2_RateWindows ==
    pc = "rfB" =>
        \A i \in 0..(N - 1) :
            \A k \in 0..((num_steps \div firing_rate_bin) - 1) :
                rf_A[i][k] =
                    <<RangeSum(A[i], k * firing_rate_bin,
                               (k + 1) * firing_rate_bin - 1),
                      firing_rate_bin>>

\* Two windows of two or more samples with different sums, and a spike in the
\* remainder that no window counts.
C2_Witness ==
    /\ pc = "rfB" /\ N >= 1
    /\ firing_rate_bin >= 2
    /\ num_steps >= 2 * firing_rate_bin
    /\ num_steps % firing_rate_bin # 0
    /\ A[0][num_steps - 1] = 1
    /\ rf_A[0][0][1] = 0
    /\ rf_A[0][1][1] = firing_rate_bin

\* C3 (as stated). An invalid configuration (N even, a sigma <= 0,
\* bin_size <= 0, T < 1) is rejected before the first timestep: no column is
\* written, no estimator or validator step runs, and no error arises in or
\* after the loop.
InvalidConfig ==
    \/ N % 2 = 0
    \/ a_sig <= 0 \/ b_sig <= 0
    \/ firing_rate_bin <= 0
    \/ num_steps < 1

\* The statements after the histograms: reached only once an estimator step ran.
AfterHistPcs ==
    {"rfA", "rfB", "rfC", "select", "pearson_rf", "pearson_raw",
     "ellipse_near", "far", "done"}

C3_RejectedBeforeLoop ==
    InvalidConfig =>
        /\ writes = <<>>
        /\ pc \notin AfterHistPcs
        /\ (pc = "error" => err[2] \notin (AfterHistPcs \cup LoopPcs \cup {"hist"}))

\* C4 (as stated). When the two firing-rate series, or the two raw rows, of
\* the selected pair are constant, the correlation step does not raise: NaN is
\* reported and the run goes on to the ellipse fit.
PairRows(X) ==
    LET i1 == PyIndex(Size(X), n1_C)
        i2 == PyIndex(Size(X), n2_C)
    IN  IF i1 < 0 \/ i2 < 0 THEN <<>> ELSE <<X[i1], X[i2]>>

\* Both rows of the pair exist, hold at least one sample and are constant.
Degenerate(rows) ==
    /\ rows # <<>>
    /\ Size(rows[1]) >= 1 /\ IsConstant(rows[1])
    /\ Size(rows[2]) >= 1 /\ IsConstant(rows[2])

\* The numerators of the pair's two firing-rate series.
BinnedPair ==
    IF PairRows(rf_C) = <<>> THEN <<>>
    ELSE <<Nums(PairRows(rf_C)[1]), Nums(PairRows(rf_C)[2])>>

C4_DegenerateIsNaN ==
    /\ (/\ pc = "pearson_raw" \/ (pc = "error" /\ err[2] = "pearson_rf")
        /\ Degenerate(BinnedPair))
       => /\ pc = "pearson_raw"
          /\ reported[Len(reported)] = <<firing_rate_bin, <<"nan">>>>
    /\ (/\ pc = "ellipse_near" \/ (pc = "error" /\ err[2] = "pearson_raw")
        /\ Degenerate(PairRows(C)))
       => /\ pc = "ellipse_near"
          /\ reported[Len(reported)] = <<1, <<"nan">>>>

\* What does hold of the correlation step: with two or more samples in each
\* constant series NaN is reported and the run goes on.
C4_TwoSamplesIsNaN ==
    /\ (/\ pc = "pearson_raw" \/ (pc = "error" /\ err[2] = "pearson_rf")
        /\ Degenerate(BinnedPair) /\ Size(BinnedPair[1]) >= 2)
       => /\ pc = "pearson_raw"
          /\ reported[Len(reported)] = <<firing_rate_bin, <<"nan">>>>
    /\ (/\ pc = "ellipse_near" \/ (pc = "error" /\ err[2] = "pearson_raw")
        /\ Degenerate(PairRows(C)) /\ num_steps >= 2)
       => /\ pc = "ellipse_near"
          /\ reported[Len(reported)] = <<1, <<"nan">>>>

\* C5. Once the loop has ended, no step changes an entry of A, B or C.
C5_TrainsReadOnly ==
    [][(pc \notin LoopPcs \/ (pc = "genA" /\ t >= num_steps))
           => trains' = trains]_vars

\* Every estimator and validator step up to the near pair's ellipse has run on
\* matrices that hold spikes.
C5_Witness ==
    /\ pc = "far"
    /\ \E i \in 0..(N - 1) : \E k \in 0..(num_steps - 1) : C[i][k] = 1

\* C6. The loop takes t = 0, 1, ... in order; at each step column t of A is
\* written, then column t of B, then column t of C from those two columns;
\* every column is written once; the estimator starts after all of them.
Written(k) ==
    <<IF k % 3 = 0 THEN "A" ELSE IF k % 3 = 1 THEN "B" ELSE "C", k \div 3>>

C6_LoopOrder ==
    /\ LET done == IF pc = "genB" THEN 3 * t + 1
                   ELSE IF pc = "comb" THEN 3 * t + 2 ELSE 3 * t
       IN  writes = [k \in 1..done |-> Written(k - 1)]
    /\ \A k \in 0..(t - 1) : Col(C, k) = compute(Col(A, k), Col(B, k))
    /\ (pc \notin LoopPcs => t = num_steps /\ Len(writes) = 3 * num_steps)

\* The estimator has started after two steps whose columns of B differ and
\* whose second column of C holds a spike.
C6_Witness ==
    /\ pc = "hist" /\ num_steps >= 2
    /\ Col(B, 0) # Col(B, 1)
    /\ \E i \in 0..(N - 1) : C[i][1] = 1

\* C7 (as stated). hX[i] is the arithmetic mean of the samples of row i that
\* lie in the first histogram_steps steps, for every num_steps >= 1 and
\* histogram_steps >= 1, also when histogram_steps > num_steps.
MeanOfFirst(row, steps) ==
    LET n == Min(steps, Size(row))
    IN  <<RangeSum(row, 0, n - 1), n>>

C7_HistogramIsMean ==
    (pc \notin (LoopPcs \cup {"hist"}) /\ num_steps >= 1) =>
        \A i \in 0..(N - 1) :
            /\ RatEq(hA[i], MeanOfFirst(A[i], histogram_steps))
            /\ RatEq(hB[i], MeanOfFirst(B[i], histogram_steps))
            /\ RatEq(hC[i], MeanOfFirst(C[i], histogram_steps))

\* C8 (as stated). Two runs with the same seed and configuration end their
\* loops with the same A, B and C.
C8_RunsAgree ==
    (first # <<>> /\ pc = "genA" /\ t >= num_steps) =>
        first[1] = [A |-> A, B |-> B, C |-> C]

\* C10 (as stated). For odd N >= 3 and -1 <= a + b <= 1 the near pair is two
\* adjacent valid rows: 0 <= n1_C < n2_C <= N - 1.
C10_PairInRange ==
    (/\ pc = "pearson_rf"
     /\ N % 2 = 1 /\ N >= 3
     /\ 0 - MeanDen <= a + b /\ a + b <= MeanDen)
    => (0 <= n1_C /\ n1_C < n2_C /\ n2_C <= N - 1)

\* C10 (amended). For odd N >= 3 and -1 <= a + b <= 1, n2_C = n1_C + 1 and
\* 0 <= n1_C <= N; both are valid rows exactly when a + b < 1 - 2/N, and
\* n2_C is past the last row for every a + b from 1 - 2/N up to 1.
C10_PairInRangeBelow ==
    (/\ pc = "pearson_rf"
     /\ N % 2 = 1 /\ N >= 3
     /\ 0 - MeanDen <= a + b /\ a + b <= MeanDen)
    => /\ n2_C = n1_C + 1
       /\ 0 <= n1_C /\ n1_C <= N
       /\ (n2_C <= N - 1) <=> ((a + b) * N < MeanDen * (N - 2))

\* The pair chosen for a positive combined mean below 1 - 2/N lies right of
\* the middle and inside the population.
C10_Witness ==
    /\ pc = "pearson_rf"
    /\ N % 2 = 1 /\ N >= 3
    /\ a + b > 0 /\ (a + b) * N < MeanDen * (N - 2)
    /\ 2 * n1_C > N /\ n2_C = N - 1
====
